---------------------------- MODULE Spec2Model ----------------------------
(***************************************************************************)
(* The chunked video uploader and job-status poller of                     *)
(* src/frontend/app/page.tsx (component VideoUploader).                    *)
(*                                                                         *)
(* The React state of the component is the state of the model; every       *)
(* event the browser can deliver is one action: a file selection, a click  *)
(* on the upload button, the response (or transport failure) of each       *)
(* request an upload has in flight, a tick of the poll interval and the    *)
(* response of a status query.  An await suspends uploadFile, so the       *)
(* program counter of each run is part of the state.  A state update that  *)
(* changes taskId re-runs the poll effect (cleanup of the old effect, then *)
(* the new effect) within the same action.                                 *)
(*                                                                         *)
(* Sizes are counted in MiB.  Progress is a rational number of percent in  *)
(* the code; here it is an integer in units of 100/Full percent, with Full *)
(* divisible by every part count, so that the arithmetic is exact.         *)
(***************************************************************************)
EXTENDS Integers, Sequences, FiniteSets, TLC

\* ------------------------------------------------------------------ bounds
\* uploadFile runs started in one behaviour
MaxUploads == 2
\* largest part count of a file the model uploads
MaxChunks == 2
\* status queries that are in flight together
MaxInFlight == 1
\* largest object length and chunk size the chunk planner is run on
MaxLen == 12
MaxChunkSize == 5
\* the log server: entries the store holds at most, and the latest clock reading
MaxLogs == 3
MaxClock == 2

\* --------------------------------------------------------------- constants
\* const CHUNK_SIZE = 5 * 1024 * 1024, in MiB
CHUNK_SIZE == 5
\* selectedFile.size > 2 * 1024 * 1024 * 1024, in MiB
MAX_FILE_SIZE == 2048

RECURSIVE Factorial(_)
Factorial(n) == IF n <= 1 THEN 1 ELSE n * Factorial(n - 1)

\* the progress value that stands for 100 (percent)
Full == Factorial(MaxChunks)

\* ------------------------------------------------------------------ values
\* JavaScript null, for each state variable's type
NoFile == [type |-> <<>>, size |-> -1]
NoError == "<null>"
NoTask == 0
NoStatus == "<null>"

\* media types, as the sequence of their tokens
VideoMp4 == <<"video", "/", "mp4">>
ImagePng == <<"image", "/", "png">>

\* sizes (MiB): empty, one short part, MaxChunks parts with a short last
\* part, and one size above the ceiling
Sizes == {0, 3, CHUNK_SIZE * MaxChunks - 3, MAX_FILE_SIZE + 1024}

\* the files the caller can select
Files == {[type |-> VideoMp4, size |-> s] : s \in Sizes} \cup {[type |-> ImagePng, size |-> 3]}

StartsWith(s, prefix) ==
    /\ Len(s) >= Len(prefix)
    /\ SubSeq(s, 1, Len(prefix)) = prefix

\* handleFile's two checks
TypeOk(f) == StartsWith(f.type, <<"video", "/">>)

\* the size check left out
SizeUnchecked(f) == TRUE

SizeOk(f) == ~(f.size > MAX_FILE_SIZE)

\* Math.ceil(length / chunkSize), for length >= 0 and chunkSize >= 1
Ceil(length, chunkSize) == (length + chunkSize - 1) \div chunkSize

\* Math.ceil(file.size / CHUNK_SIZE)
TotalChunks(size) == Ceil(size, CHUNK_SIZE)

\* ------------------------------------------------------- the chunk loop
\* const start = i * CHUNK_SIZE
ChunkStart(i, chunkSize) == i * chunkSize

\* a chunk that always runs to start + chunkSize
ChunkEndUnclamped(start, chunkSize, length) == start + chunkSize

\* const end = Math.min(start + CHUNK_SIZE, file.size)
ChunkEnd(start, chunkSize, length) ==
    IF start + chunkSize < length THEN start + chunkSize ELSE length

\* const partNumber = i + 1
PartNumberOf(i) == i + 1

\* the part the loop cuts at index i: file.slice(start, end) is the bytes
\* [start, end), empty when end <= start
PlanChunk(i, chunkSize, length) ==
    [partNumber |-> PartNumberOf(i),
     start |-> ChunkStart(i, chunkSize),
     end |-> ChunkEnd(ChunkStart(i, chunkSize), chunkSize, length)]

\* the loop before it is entered, for an object of `length` bytes
NewPlan(length, chunkSize) ==
    [length |-> length, chunkSize |-> chunkSize, i |-> 0, ranges |-> <<>>]

\* no loop is run on its own
NoPlan == NewPlan(0, CHUNK_SIZE)

\* (1 / totalChunks) * 100
ProgressStep(totalChunks) == Full \div totalChunks

\* ---------------------------------------------------------------- messages
InvalidTypeMsg == "Invalid file type. Please select a video file."
TooLargeMsg == "File is too large. The maximum file size is 2GB."
NoFileMsg == "No file selected."
InitFailedMsg == "Failed to initialize upload."
CommitFailedMsg == "Failed to complete upload."
UnknownErrorMsg == "An unknown error occurred during upload."
\* the message of the TypeError a failed fetch or an unreadable body throws
TransportMsg == "Failed to fetch"
BackendErrorMsg == "backend: invalid part set"

PartFailedMsg(partNumber) == "Upload of part " \o ToString(partNumber) \o " failed."
ETagMissingMsg(partNumber) == "ETag not found for part " \o ToString(partNumber) \o "."

\* err.message || "An unknown error occurred during upload."
CaughtMessage(msg) == IF msg = "" THEN UnknownErrorMsg ELSE msg

\* ------------------------------------------------------------------ ETags
Quote == "\""
\* the ETag header the store returns for a part; <<>> is a missing (null) or
\* empty header, both falsy for `!etag`
NoETag == <<>>
ETagOf(partNumber) == <<Quote, "e", ToString(partNumber), Quote>>

\* etag.replace(/"/g, '')
StripQuotes(etag) == SelectSeq(etag, LAMBDA c : c # Quote)

\* promise states of a part transfer; a rejected promise holds its message
NotStarted == "<none>"
Pending == "<pending>"
Fulfilled == "<fulfilled>"
IsRejected(p) == p \notin {NotStarted, Pending, Fulfilled}

Uploads == 1..MaxUploads
PartNumbers == 1..MaxChunks

VARIABLES
    file,              \* useState: the selected file
    error,             \* useState: the error shown
    uploading,         \* useState
    progress,          \* useState, 100 percent = Full
    taskId,            \* useState
    processingStatus,  \* useState
    runs,              \* the calls of uploadFile: closure variables and position
    timers,            \* the poll intervals that are set, by the taskId of their effect
    inflight,          \* status queries in flight, per poll interval
    terminalSeen,      \* history: the current task, once a status response of it was SUCCESS or FAILURE
    plan,              \* the chunk loop run on its own: length, chunk size, index i and the ranges cut
    logs,              \* the log server (src/unnamed/part_001): let logs = []
    res,               \* the log server: the response it sent last
    clock              \* the log server: the reading of new Date()

\* the state of the log server, a process of its own
serverVars == <<logs, res, clock>>

vars == <<file, error, uploading, progress, taskId, processingStatus, runs, timers, inflight, terminalSeen, plan,
          logs, res, clock>>

\* a call of uploadFile that has not been made: pc is the await the call is
\* suspended at, i the part number of the part-target request awaited,
\* parts the promises in uploadPromises
IdleRun ==
    [pc |-> "idle",
     file |-> NoFile,
     i |-> 0,
     parts |-> [k \in PartNumbers |-> NotStarted],
     uploadedParts |-> <<>>]

\* A call that has returned: its closure is reachable only from the callbacks
\* of the transfers still outstanding, which read totalChunks and nothing
\* else (uploadedParts is pushed to and never read again), so only the file
\* and the pending promises are kept, and nothing once none is pending.
Release(run) ==
    IF run.pc # "done" THEN run
    ELSE IF \A k \in PartNumbers : run.parts[k] # Pending THEN [IdleRun EXCEPT !.pc = "done"]
    ELSE [IdleRun EXCEPT !.pc = "done", !.file = run.file,
                         !.parts = [k \in PartNumbers |->
                                       IF run.parts[k] = Pending THEN Pending ELSE NotStarted]]

\* ----------------------------------------------------- the log server
\* JavaScript values a field of a JSON body can hold
Undefined == [type |-> "undefined", value |-> ""]
Str(s) == [type |-> "string", value |-> s]
Num(digits) == [type |-> "number", value |-> digits]

\* !v
Falsy(v) ==
    \/ v.type = "undefined"
    \/ v.type = "string" /\ v.value = ""
    \/ v.type = "number" /\ v.value = "0"

\* what the server answers: the status code and the JSON body, of which
\* one of error, status and logs is sent
Response(code, errorText, statusText, entries) ==
    [status |-> code, error |-> errorText, accepted |-> statusText, logs |-> entries]

\* the log server after start: an empty store, no response sent
NoResponse == Response(0, "", "", <<>>)
ServerStarted ==
    /\ logs = <<>>
    /\ res = NoResponse
    /\ clock = 0

Init ==
    /\ file = NoFile
    /\ error = NoError
    /\ uploading = FALSE
    /\ progress = 0
    /\ taskId = NoTask
    /\ processingStatus = NoStatus
    /\ runs = [r \in Uploads |-> IdleRun]
    /\ timers = {}
    /\ inflight = [t \in Uploads |-> 0]
    /\ terminalSeen = {}
    /\ plan = NoPlan
    /\ ServerStarted

\* ------------------------------------------------------- the poll effect
\* an effect that returns no cleanup
NoCleanup(ts, oldTask) == ts

\* return () => clearInterval(interval), run when taskId changes
EffectCleanup(ts, oldTask) == ts \ {oldTask}

\* if (!taskId) return; const interval = setInterval(...)
EffectSetup(ts, newTask) == IF newTask = NoTask THEN ts ELSE ts \cup {newTask}

\* useEffect(..., [taskId]): the effect re-runs only when taskId changed
RunEffect(ts, oldTask, newTask) ==
    IF newTask = oldTask THEN ts ELSE EffectSetup(EffectCleanup(ts, oldTask), newTask)

\* ------------------------------------------------------------- handleFile
HandleFile(selectedFile) ==
    /\ IF ~TypeOk(selectedFile)
       THEN /\ error' = InvalidTypeMsg
            /\ file' = NoFile
            /\ UNCHANGED <<progress, taskId, processingStatus, timers, terminalSeen>>
       ELSE IF ~SizeOk(selectedFile)
       THEN /\ error' = TooLargeMsg
            /\ file' = NoFile
            /\ UNCHANGED <<progress, taskId, processingStatus, timers, terminalSeen>>
       ELSE /\ error' = NoError
            /\ file' = selectedFile
            /\ progress' = 0
            /\ taskId' = NoTask
            /\ processingStatus' = NoStatus
            /\ timers' = RunEffect(timers, taskId, NoTask)
            /\ terminalSeen' = terminalSeen \cap {NoTask}
    /\ UNCHANGED <<uploading, runs, inflight, plan, serverVars>>

\* ------------------------------------------------------------- uploadFile
\* {file && !error && (... <button onClick={uploadFile} disabled={uploading}>
ButtonEnabled == file # NoFile /\ error = NoError /\ ~uploading

\* the first call of uploadFile that has not been made
NextRun(r) == runs[r].pc = "idle" /\ \A q \in Uploads : q < r => runs[q].pc # "idle"

\* fetch('/api/upload/complete', {... parts: uploadedParts ...}) is called
CommitIssued(run) == [run EXCEPT !.pc = "commit"]

\* the part numbers whose transfer promise is rejected
RejectedParts(parts) == {k \in PartNumbers : IsRejected(parts[k])}

\* the part numbers whose transfer came back with a non-success response or
\* with no ETag
ResponseFailed(parts) ==
    {k \in PartNumbers : parts[k] \in {PartFailedMsg(k), ETagMissingMsg(k)}}

Min(S) == CHOOSE x \in S : \A y \in S : x <= y

\* Promise.any in the place of Promise.all: fulfilled with the first promise
\* that is fulfilled
PromiseAny(parts, n) ==
    IF \E k \in 1..n : parts[k] = Fulfilled THEN "fulfilled"
    ELSE IF \A k \in 1..n : IsRejected(parts[k]) THEN "rejected"
    ELSE "pending"

\* Promise.race in the place of Promise.all: settled as the first promise
\* that settles
PromiseRace(parts, n) ==
    IF RejectedParts(parts) # {} THEN "rejected"
    ELSE IF \E k \in 1..n : parts[k] = Fulfilled THEN "fulfilled"
    ELSE "pending"

\* Promise.all(uploadPromises) of n promises: "rejected" as soon as one is
\* rejected, "fulfilled" when all n are fulfilled
PromiseAll(parts, n) ==
    IF RejectedParts(parts) # {} THEN "rejected"
    ELSE IF \A k \in 1..n : parts[k] = Fulfilled THEN "fulfilled"
    ELSE "pending"

\* a return without the finally block
ReturnKeepsFlag(r, run) ==
    /\ runs' = [runs EXCEPT ![r] = Release([run EXCEPT !.pc = "done"])]
    /\ uploading' = uploading

\* the call r, suspended as `run`, returns
Return(r, run) ==
    /\ runs' = [runs EXCEPT ![r] = Release([run EXCEPT !.pc = "done"])]
    \* finally { setUploading(false) }
    /\ uploading' = FALSE

\* catch (err) { setError(err.message || ...) } finally { setUploading(false) }
Caught(r, run, msg) ==
    /\ error' = CaughtMessage(msg)
    /\ Return(r, run)

\* the call r goes on to its next await as `run`
Suspend(r, run) ==
    /\ runs' = [runs EXCEPT ![r] = run]
    /\ UNCHANGED <<error, uploading>>

\* uploadFile up to its first await: the guard, the three state updates and
\* the call of fetch('/api/upload/initialize')
UploadFile(r) ==
    /\ ButtonEnabled
    /\ NextRun(r)
    /\ TotalChunks(file.size) <= MaxChunks
    /\ IF file = NoFile
       THEN /\ error' = NoFileMsg
            /\ UNCHANGED <<uploading, progress, runs>>
       ELSE /\ uploading' = TRUE
            /\ error' = NoError
            /\ progress' = 0
            /\ runs' = [runs EXCEPT ![r] = [IdleRun EXCEPT !.pc = "init", !.file = file]]
    /\ UNCHANGED <<file, taskId, processingStatus, timers, inflight, terminalSeen, plan, serverVars>>

InitResponses == {"transport", "noUploadId", "ok"}

\* the check of uploadId left out
UploadIdUnchecked(resp) == FALSE

\* if (!uploadId)
UploadIdMissing(resp) == resp = "noUploadId"

\* the init request settles: const { uploadId } = await initResponse.json(),
\* then the loop up to the await of the first part-target request; a file of
\* no chunks skips the loop and Promise.all([]) resolves at once
InitResponse(r, resp) ==
    /\ runs[r].pc = "init"
    /\ LET run == runs[r]
           n == TotalChunks(run.file.size)
       IN  IF resp = "transport" THEN Caught(r, run, TransportMsg)
           ELSE IF UploadIdMissing(resp) THEN Caught(r, run, InitFailedMsg)
           ELSE IF n = 0 THEN Suspend(r, CommitIssued(run))
           ELSE Suspend(r, [run EXCEPT !.pc = "target", !.i = 1])
    /\ UNCHANGED <<file, progress, taskId, processingStatus, timers, inflight, terminalSeen, plan, serverVars>>

TargetResponses == {"transport", "ok"}

\* a loop that steps over a part
SkipPart(k) == k + 2

\* i++ : the part after part k
NextPart(k) == k + 1

\* the part-target request of part i settles: the transfer of part i is
\* started (fetch(url, PUT)), then either the next part-target request is
\* awaited or, after the last part, Promise.all(uploadPromises)
PartTargetResponse(r, resp) ==
    /\ runs[r].pc = "target"
    /\ LET run == runs[r]
           n == TotalChunks(run.file.size)
           started == [run EXCEPT !.parts[run.i] = Pending]
       IN  IF resp = "transport" THEN Caught(r, run, TransportMsg)
           ELSE IF run.i < n THEN Suspend(r, [started EXCEPT !.i = NextPart(run.i)])
           ELSE IF PromiseAll(started.parts, n) = "rejected"
           THEN \* the reactions of the promises already rejected run in index order
                Caught(r, started, started.parts[Min(RejectedParts(started.parts))])
           ELSE Suspend(r, [started EXCEPT !.pc = "join"])
    /\ UNCHANGED <<file, progress, taskId, processingStatus, timers, inflight, terminalSeen, plan, serverVars>>

\* what a PUT of part k can come back with: a transport failure, a
\* non-success response, a success without ETag, a success with ETag
PutResponses(k) ==
    {[transport |-> TRUE, ok |-> FALSE, etag |-> NoETag],
     [transport |-> FALSE, ok |-> FALSE, etag |-> NoETag],
     [transport |-> FALSE, ok |-> TRUE, etag |-> NoETag],
     [transport |-> FALSE, ok |-> TRUE, etag |-> ETagOf(k)]}

\* the promise state the .then callback of part k leaves
TransferOutcome(k, resp) ==
    IF resp.transport THEN TransportMsg
    ELSE IF ~resp.ok THEN PartFailedMsg(k)
    ELSE IF resp.etag = NoETag THEN ETagMissingMsg(k)
    ELSE Fulfilled

\* uploadedParts.push({ PartNumber: partNumber, ETag: etag.replace(/"/g, '') })
PushPart(uploadedParts, k, etag) ==
    Append(uploadedParts, [PartNumber |-> k, ETag |-> StripQuotes(etag)])

\* setProgress(prev => prev + (1 / totalChunks) * 100)
AddProgress(prev, totalChunks) == prev + ProgressStep(totalChunks)

\* the transfer of part k settles, in any run that started it (the callback
\* runs whether or not uploadFile has returned); then Promise.all, if awaited
PartTransferResponse(r, k, resp) ==
    /\ runs[r].parts[k] = Pending
    /\ LET run == runs[r]
           n == TotalChunks(run.file.size)
           outcome == TransferOutcome(k, resp)
           settled ==
               IF outcome = Fulfilled
               THEN [run EXCEPT !.parts[k] = Fulfilled,
                                !.uploadedParts = PushPart(run.uploadedParts, k, resp.etag)]
               ELSE [run EXCEPT !.parts[k] = outcome]
           all == PromiseAll(settled.parts, n)
       IN  /\ progress' = IF outcome = Fulfilled THEN AddProgress(progress, n) ELSE progress
           /\ IF run.pc = "join" /\ all = "rejected" THEN Caught(r, settled, outcome)
              ELSE IF run.pc = "join" /\ all = "fulfilled" THEN Suspend(r, CommitIssued(settled))
              ELSE Suspend(r, Release(settled))
    /\ UNCHANGED <<file, taskId, processingStatus, timers, inflight, terminalSeen, plan, serverVars>>

UploadCompleteMsg == "Upload complete. Waiting for processing to start..."

\* what the commit request can come back with; the backend names the task of
\* the r-th commit r
CommitResponses(r) ==
    {[transport |-> TRUE, ok |-> FALSE, taskId |-> NoTask, error |-> ""],
     [transport |-> FALSE, ok |-> TRUE, taskId |-> r, error |-> ""],
     [transport |-> FALSE, ok |-> FALSE, taskId |-> NoTask, error |-> BackendErrorMsg],
     [transport |-> FALSE, ok |-> FALSE, taskId |-> NoTask, error |-> ""]}

\* the generic message always, the backend's text dropped
GenericCommitError(resp) == CommitFailedMsg

\* result.error || "Failed to complete upload."
CommitError(resp) == IF resp.error = "" THEN CommitFailedMsg ELSE resp.error

\* the commit request settles; a change of taskId re-runs the poll effect
CommitResponse(r, resp) ==
    /\ runs[r].pc = "commit"
    /\ LET run == runs[r]
       IN  IF resp.transport
           THEN /\ Caught(r, run, TransportMsg)
                /\ UNCHANGED <<taskId, processingStatus, timers, terminalSeen>>
           ELSE IF resp.ok
           THEN /\ taskId' = resp.taskId
                /\ processingStatus' = UploadCompleteMsg
                /\ timers' = RunEffect(timers, taskId, resp.taskId)
                /\ terminalSeen' = terminalSeen \cap {resp.taskId}
                /\ Return(r, run)
                /\ UNCHANGED error
           ELSE /\ Caught(r, run, CommitError(resp))
                /\ UNCHANGED <<taskId, processingStatus, timers, terminalSeen>>
    /\ UNCHANGED <<file, progress, inflight, plan, serverVars>>

\* -------------------------------------------------------- the status poller
ProcessingMsg == "Processing..."
CompleteMsg == "Processing complete!"
UnknownFailureMsg == "Unknown error"
TranscribingMsg == "Transcribing"

FailedMsg(detail) == "Processing failed: " \o detail

\* what a status query can come back with: a failed request or unreadable
\* body, or {state, info: {status}} with info present or not and status
\* empty or not
StatusResponses ==
    {[readable |-> FALSE, state |-> "", hasInfo |-> FALSE, status |-> ""]}
    \cup [readable : {TRUE}, state : {"QUEUED", "SUCCESS"}, hasInfo : {TRUE}, status : {""}]
    \cup [readable : {TRUE}, state : {"PROGRESS", "FAILURE"}, hasInfo : {TRUE},
          status : {"", TranscribingMsg}]
    \cup [readable : {TRUE}, state : {"PROGRESS", "FAILURE"}, hasInfo : {FALSE}, status : {""}]

\* data.info.status || fallback
StatusDetail(resp, fallback) == IF resp.status = "" THEN fallback ELSE resp.status

\* does the interval callback throw before it reaches the end: the request
\* or response.json() fails, or data.info.status is read with no data.info
CallbackThrows(resp) ==
    \/ ~resp.readable
    \/ resp.state \in {"PROGRESS", "FAILURE"} /\ ~resp.hasInfo

\* the status the callback sets, or the current one when it sets none
SurfacedStatus(resp, current) ==
    IF CallbackThrows(resp) THEN current
    ELSE IF resp.state = "PROGRESS" THEN StatusDetail(resp, ProcessingMsg)
    ELSE IF resp.state = "SUCCESS" THEN CompleteMsg
    ELSE IF resp.state = "FAILURE" THEN FailedMsg(StatusDetail(resp, UnknownFailureMsg))
    ELSE current

\* does the callback reach clearInterval(interval)
ClearsInterval(resp) == ~CallbackThrows(resp) /\ resp.state \in {"SUCCESS", "FAILURE"}

RECURSIVE InFlightCount(_)
\* the number of status queries in flight, over the intervals in ts
InFlightCount(ts) ==
    IF ts = {} THEN 0
    ELSE LET t == CHOOSE x \in ts : TRUE IN inflight[t] + InFlightCount(ts \ {t})

\* setInterval fires: the callback of interval t calls fetch(status/taskId)
PollTick(t) ==
    /\ t \in timers
    /\ InFlightCount(Uploads) < MaxInFlight
    /\ inflight' = [inflight EXCEPT ![t] = @ + 1]
    /\ UNCHANGED <<file, error, uploading, progress, taskId, processingStatus, runs, timers, terminalSeen, plan, serverVars>>

\* a status query of interval t settles and the rest of the callback runs
StatusResponse(t, resp) ==
    /\ inflight[t] > 0
    /\ inflight' = [inflight EXCEPT ![t] = @ - 1]
    /\ processingStatus' = SurfacedStatus(resp, processingStatus)
    /\ timers' = IF ClearsInterval(resp) THEN timers \ {t} ELSE timers
    /\ terminalSeen' =
           IF t = taskId /\ resp.readable /\ resp.state \in {"SUCCESS", "FAILURE"}
           THEN terminalSeen \cup {t} ELSE terminalSeen
    /\ UNCHANGED <<file, error, uploading, progress, taskId, runs, plan, serverVars>>

\* --------------------------------------------- the chunk loop on its own
\* for (let i = 0; i < totalChunks; i++): one iteration, the requests left out
PlanNext ==
    /\ plan.i < Ceil(plan.length, plan.chunkSize)
    /\ plan' = [plan EXCEPT !.i = @ + 1,
                            !.ranges = Append(@, PlanChunk(plan.i, plan.chunkSize, plan.length))]
    /\ UNCHANGED <<file, error, uploading, progress, taskId, processingStatus, runs, timers,
                   inflight, terminalSeen, serverVars>>

\* the loop, started on every length 1..MaxLen with every chunk size
\* 1..MaxChunkSize
InitPlanner ==
    /\ file = NoFile
    /\ error = NoError
    /\ uploading = FALSE
    /\ progress = 0
    /\ taskId = NoTask
    /\ processingStatus = NoStatus
    /\ runs = [r \in Uploads |-> IdleRun]
    /\ timers = {}
    /\ inflight = [t \in Uploads |-> 0]
    /\ terminalSeen = {}
    /\ plan \in {NewPlan(length, chunkSize) : length \in 1..MaxLen, chunkSize \in 1..MaxChunkSize}
    /\ ServerStarted

NextPlanner == PlanNext

SpecPlanner == InitPlanner /\ [][NextPlanner]_vars

\* ------------------------------------------- the log server's handlers
\* the JSON bodies of the POST requests that have every field set; level
\* is a string or a number, on which toUpperCase is no function
CompleteBodies ==
    [source : {Str("frontend"), Str("backend")},
     level : {Str("info"), Num("7")},
     message : {Str("started")},
     timestamp : {Str("2025-08-10T00:00:00Z")}]

\* a complete body of strings
SomeBody == CHOOSE body \in CompleteBodies : body.source = Str("frontend") /\ body.level = Str("info")

\* the JSON bodies of the POST requests: the complete ones, the ones with
\* one field absent, empty or (timestamp) zero, and the empty object
Bodies ==
    CompleteBodies
    \cup {[SomeBody EXCEPT ![f] = v] : f \in {"source", "level", "message", "timestamp"},
                                       v \in {Undefined, Str("")}}
    \cup {[SomeBody EXCEPT !.timestamp = Num("0")]}
    \cup {[source |-> Undefined, level |-> Undefined, message |-> Undefined, timestamp |-> Undefined]}

MissingFieldsMsg == "Log message must include source, level, message, and timestamp."

\* if (!source || !level || !message || !timestamp)
Incomplete(body) ==
    Falsy(body.source) \/ Falsy(body.level) \/ Falsy(body.message) \/ Falsy(body.timestamp)

\* { source, level, message, timestamp, receivedAt: new Date().toISOString() }
LogEntry(body, now) ==
    [source |-> body.source, level |-> body.level, message |-> body.message,
     timestamp |-> body.timestamp, receivedAt |-> now]

\* the entry put at the front of the store
UnshiftLog(store, logEntry) == <<logEntry>> \o store

\* logs.push(logEntry)
PushLog(store, logEntry) == Append(store, logEntry)

\* level.toUpperCase() in the console.log line throws when level is no string
LogLineThrows(body) == body.level.type # "string"

\* app.post('/logs', ...) at the time `now`; a throw in the handler is
\* answered 500 by express
PostLogs(body, now) ==
    /\ now >= clock
    /\ clock' = now
    /\ IF Incomplete(body)
       THEN /\ res' = Response(400, MissingFieldsMsg, "", <<>>)
            /\ logs' = logs
       ELSE /\ Len(logs) < MaxLogs
            /\ logs' = PushLog(logs, LogEntry(body, now))
            /\ res' = IF LogLineThrows(body) THEN Response(500, "", "", <<>>)
                      ELSE Response(202, "", "accepted", <<>>)
    /\ UNCHANGED <<file, error, uploading, progress, taskId, processingStatus, runs, timers,
                   inflight, terminalSeen, plan>>

\* app.get('/logs', ...): res.json(logs)
GetLogs ==
    /\ res' = Response(200, "", "", logs)
    /\ UNCHANGED <<logs, clock>>
    /\ UNCHANGED <<file, error, uploading, progress, taskId, processingStatus, runs, timers,
                   inflight, terminalSeen, plan>>

NextLogServer ==
    \/ \E body \in Bodies, now \in 0..MaxClock : PostLogs(body, now)
    \/ GetLogs

SpecLogServer == Init /\ [][NextLogServer]_vars

\* ------------------------------------------------------------ the program
Next ==
    \/ \E f \in Files : HandleFile(f)
    \/ \E r \in Uploads : UploadFile(r)
    \/ \E r \in Uploads, resp \in InitResponses : InitResponse(r, resp)
    \/ \E r \in Uploads, resp \in TargetResponses : PartTargetResponse(r, resp)
    \/ \E r \in Uploads, k \in PartNumbers : \E resp \in PutResponses(k) : PartTransferResponse(r, k, resp)
    \/ \E r \in Uploads : \E resp \in CommitResponses(r) : CommitResponse(r, resp)
    \/ \E t \in Uploads : PollTick(t)
    \/ \E t \in Uploads, resp \in StatusResponses : StatusResponse(t, resp)

Spec == Init /\ [][Next]_vars

\* every request an upload has issued gets a response or fails: the browser
\* settles each fetch promise, and a settled promise's reaction runs
ResponsesArrive ==
    /\ \A r \in Uploads : WF_vars(\E resp \in InitResponses : InitResponse(r, resp))
    /\ \A r \in Uploads : WF_vars(\E resp \in TargetResponses : PartTargetResponse(r, resp))
    /\ \A r \in Uploads, k \in PartNumbers :
           WF_vars(\E resp \in PutResponses(k) : PartTransferResponse(r, k, resp))
    /\ \A r \in Uploads : WF_vars(\E resp \in CommitResponses(r) : CommitResponse(r, resp))

SpecLive == Spec /\ ResponsesArrive

\* ------------------------------------------------- notions the claims use
\* a call of uploadFile that is suspended at an await
Live(run) == run.pc \in {"init", "target", "join", "commit"}

\* the call r returns in this step
Returns(r) == Live(runs[r]) /\ runs'[r].pc = "done"

\* the part count of a call
PartCount(run) == TotalChunks(run.file.size)

\* the parts list of the commit request of a call that awaits its response
CommitBody(run) == run.uploadedParts

\* the messages that name part k as failed
NamesPart(k) == {PartFailedMsg(k), ETagMissingMsg(k)}

\* the media type is in the video category; the size is within the ceiling
InVideoCategory(f) == Len(f.type) >= 2 /\ f.type[1] = "video" /\ f.type[2] = "/"
WithinCeiling(f) == f.size <= MAX_FILE_SIZE
Acceptable(f) == InVideoCategory(f) /\ WithinCeiling(f)

\* ------------------------------------------------------------------ claims
\* C1: a commit request is issued only when every part 1..partCount has a
\* recorded completion token, and its parts list holds exactly one entry
\* for each part number 1..partCount.
C1_CommitHasEveryPartOnce ==
    \A r \in Uploads :
        runs[r].pc = "commit" =>
            LET n == PartCount(runs[r])
                body == CommitBody(runs[r])
            IN  /\ \A k \in 1..n : runs[r].parts[k] = Fulfilled
                /\ Len(body) = n
                /\ \A k \in 1..n :
                       Cardinality({j \in 1..Len(body) :
                           body[j].PartNumber = k /\ body[j].ETag # NoETag}) = 1

\* a commit request of a file of MaxChunks parts awaits its response
C1_Witness ==
    \E r \in Uploads : runs[r].pc = "commit" /\ PartCount(runs[r]) = MaxChunks

\* C2: the parts list of the commit request is in ascending PartNumber
\* order, whatever the order in which the transfers completed.
C2_CommitBodyAscending ==
    \A r \in Uploads :
        runs[r].pc = "commit" =>
            \A j \in 1..(Len(CommitBody(runs[r])) - 1) :
                CommitBody(runs[r])[j].PartNumber < CommitBody(runs[r])[j + 1].PartNumber

\* C3: when a transfer of an upload has come back with a non-success
\* response or without ETag, no commit request is issued for the upload, and
\* the upload ends with an error that names a part that failed so, setting
\* no task identifier.
C3_FailedPartIsNamed ==
    /\ [](\A r \in Uploads :
            ResponseFailed(runs[r].parts) # {} => runs[r].pc # "commit")
    /\ [][\A r \in Uploads :
            LET run == runs[r]
                \* failed before this step, or failing in it while Promise.all is awaited
                failed == ResponseFailed(run.parts) \cup
                          {k \in PartNumbers : /\ run.pc = "join"
                                               /\ run.parts[k] = Pending
                                               /\ error' \in NamesPart(k)}
            IN  Returns(r) /\ failed # {} =>
                    /\ \E k \in failed : error' \in NamesPart(k)
                    /\ taskId' = taskId]_vars

\* C4: the progress value never exceeds 100 percent.
C4_ProgressAtMostFull == progress <= Full

\* C5: while an upload is in progress the progress value never decreases,
\* and it changes only by 1/partCount of the upload in progress.
C5_ProgressMonotonic ==
    [][uploading /\ uploading' =>
          /\ progress' >= progress
          /\ progress' # progress =>
                 \E r \in Uploads :
                     /\ Live(runs[r])
                     /\ PartCount(runs[r]) > 0
                     /\ progress' - progress = ProgressStep(PartCount(runs[r]))]_vars

\* C6: once a status response of the current task was SUCCESS or FAILURE,
\* no further status query is issued for that task.
C6_NoQueryAfterTerminal ==
    [][\A t \in Uploads : t \in terminalSeen => inflight'[t] <= inflight[t]]_vars

\* C7: every status response with state FAILURE, with or without a status
\* detail, surfaces a failure status (the detail, or the generic fallback)
\* and stops the polling of its interval.
C7_FailureSurfacedAndStopped ==
    [][\A t \in Uploads, resp \in StatusResponses :
          resp.readable /\ resp.state = "FAILURE" /\ StatusResponse(t, resp) =>
              /\ processingStatus' \in {FailedMsg(TranscribingMsg), FailedMsg(UnknownFailureMsg)}
              /\ t \notin timers']_vars

\* C8: at most one poll timer exists at any time, it is the timer of the
\* current task identifier, and none exists while the identifier is unset.
C8_AtMostOneTimer ==
    /\ Cardinality(timers) <= 1
    /\ timers \subseteq {taskId}
    /\ taskId = NoTask => timers = {}

\* the task identifier was replaced: the timer of task 2 is set while a
\* status query of the interval of task 1 is still in flight
C8_Witness == taskId = 2 /\ timers = {2} /\ inflight[1] > 0

\* C9: a file that is not a video or is larger than the ceiling is never the
\* selected file and never the file of an upload (so no request is issued
\* for it); selecting it sets an error and clears the selection.
C9_InvalidNeverSelected ==
    /\ [](file # NoFile => Acceptable(file))
    /\ [](\A r \in Uploads : runs[r].file # NoFile => Acceptable(runs[r].file))
    /\ [][\A f \in Files :
            ~Acceptable(f) /\ HandleFile(f) =>
                /\ file' = NoFile
                /\ error' \in {InvalidTypeMsg, TooLargeMsg}
                /\ UNCHANGED runs]_vars

\* a file above the ceiling was selected while a file was selected
C9_Witness == file = NoFile /\ error = TooLargeMsg /\ \E r \in Uploads : runs[r].pc = "done"

\* C10: no upload is started (no session initialised, no commit request
\* issued) for a file of length 0.
C10_EmptyFileNeverUploaded ==
    \A r \in Uploads : Live(runs[r]) => runs[r].file.size > 0

\* C11: an init response without uploadId ends the upload with the
\* initialisation error: no part-target request, no part transfer and no
\* commit request is issued for it, and a call that has returned issues no
\* request again (no retry).
C11_NoUploadIdAborts ==
    /\ [][\A r \in Uploads :
            InitResponse(r, "noUploadId") =>
                /\ error' = InitFailedMsg
                /\ ~uploading'
                /\ runs'[r].pc = "done"
                /\ \A k \in PartNumbers : runs'[r].parts[k] = NotStarted]_vars
    /\ [][\A r \in Uploads :
            runs[r].pc = "done" =>
                /\ runs'[r].pc = "done"
                /\ \A k \in PartNumbers :
                       runs'[r].parts[k] = Pending => runs[r].parts[k] = Pending]_vars

\* an upload has ended with the initialisation error
C11_Witness ==
    /\ error = InitFailedMsg
    /\ ~uploading
    /\ \E r \in Uploads : runs[r].pc = "done" /\ runs[r].file = file

\* C12: for every length L >= 1 and chunk size C >= 1 the loop cuts
\* ceil(L/C) non-empty ranges, numbered 1..ceil(L/C) in order, that are
\* contiguous, do not overlap and cover [0, L) exactly; every range but the
\* last has length C.
C12_RangesCoverObject ==
    LET n == Ceil(plan.length, plan.chunkSize)
        ranges == plan.ranges
    IN  /\ Len(ranges) = plan.i
        /\ plan.i <= n
        /\ \A j \in 1..Len(ranges) :
               /\ ranges[j].partNumber = j
               /\ ranges[j].start < ranges[j].end
               /\ ranges[j].start = (IF j = 1 THEN 0 ELSE ranges[j - 1].end)
               /\ j < n => ranges[j].end - ranges[j].start = plan.chunkSize
        /\ plan.i = n /\ n > 0 =>
               /\ ranges[n].end = plan.length
               /\ ranges[n].end - ranges[n].start <= plan.chunkSize

\* the loop has ended on an object of several chunks whose last chunk is short
C12_Witness ==
    /\ plan.i = Ceil(plan.length, plan.chunkSize)
    /\ plan.i >= 3
    /\ plan.length % plan.chunkSize # 0

\* what a commit response that is read and is not a success surfaces
SurfacesCommitError(resp) ==
    error' = (IF resp.error # "" THEN resp.error ELSE CommitFailedMsg)

Abandoned(r) ==
    /\ runs[r].pc \in {"init", "target", "join"}
    /\ file # runs[r].file
    /\ file.size > 0

\* the call r issues a part-target request in this step
IssuesPartTarget(r) ==
    /\ runs'[r].pc = "target"
    /\ runs[r].pc # "target" \/ runs'[r].i # runs[r].i

\* the call r starts a part transfer in this step
StartsTransfer(r) ==
    \E k \in PartNumbers : runs[r].parts[k] # Pending /\ runs'[r].parts[k] = Pending

\* the call r issues its commit request in this step
IssuesCommit(r) == runs[r].pc # "commit" /\ runs'[r].pc = "commit"

\* C14: an upload abandoned before its commit (another file was selected)
\* issues no new part-target request, starts no new part transfer and never
\* issues a commit request.
C14_AbandonedUploadStops ==
    [][\A r \in Uploads :
          Abandoned(r) => ~IssuesPartTarget(r) /\ ~StartsTransfer(r) /\ ~IssuesCommit(r)]_vars

\* C15: once a part transfer of an upload has failed, the upload issues no
\* further part-target request and starts no further part transfer.
C15_NoRequestAfterPartFailure ==
    [][\A r \in Uploads :
          RejectedParts(runs[r].parts) # {} => ~IssuesPartTarget(r) /\ ~StartsTransfer(r)]_vars

\* C16: the commit request is issued only after every part transfer of the
\* upload has resolved: while the commit request of an upload awaits its
\* response no transfer of the upload is outstanding, and none is when the
\* request is issued.
C16_CommitAfterAllResolved ==
    /\ [](\A r \in Uploads :
            runs[r].pc = "commit" =>
                \A k \in PartNumbers : runs[r].parts[k] \in {NotStarted, Fulfilled})
    /\ [][\A r \in Uploads :
            IssuesCommit(r) =>
                \A k \in 1..PartCount(runs[r]) : runs'[r].parts[k] = Fulfilled]_vars

\* a commit request was issued after the transfers completed out of order
C16_Witness ==
    \E r \in Uploads :
        /\ runs[r].pc = "commit"
        /\ Len(CommitBody(runs[r])) = MaxChunks
        /\ CommitBody(runs[r])[1].PartNumber = MaxChunks

\* the parts of a call whose transfer was started
Started(run) == {k \in PartNumbers : run.parts[k] # NotStarted}

\* C17: the part-target requests of an upload are issued one at a time in
\* ascending part number (the request of part k+1 when the response of part
\* k has come), and the transfer of part k is started at the response of
\* its part-target request, whether or not earlier transfers are still
\* outstanding; nothing orders the completions of the transfers.
C17_TargetsInOrderTransfersOverlap ==
    /\ [](\A r \in Uploads :
            LET run == runs[r]
            IN  /\ run.pc = "target" =>
                       /\ run.i \in 1..PartCount(run)
                       /\ Started(run) = 1..(run.i - 1)
                /\ run.pc \in {"join", "commit"} => Started(run) = 1..PartCount(run))
    /\ [][\A r \in Uploads :
            /\ IssuesPartTarget(r) =>
                   runs'[r].i = (IF runs[r].pc = "init" THEN 1 ELSE runs[r].i + 1)
            /\ StartsTransfer(r) =>
                   /\ runs[r].pc = "target"
                   /\ \A k \in PartNumbers :
                          runs[r].parts[k] # Pending /\ runs'[r].parts[k] = Pending => k = runs[r].i]_vars

\* the transfer of the last part has completed while the transfer of the
\* first part is still outstanding
C17_Witness ==
    \E r \in Uploads :
        /\ Live(runs[r])
        /\ runs[r].parts[1] = Pending
        /\ runs[r].parts[MaxChunks] = Fulfilled

\* the detail of a status response, "" when it has none
DetailOf(resp) == IF resp.hasInfo THEN resp.status ELSE ""

\* C18: every status response with state PROGRESS replaces the surfaced
\* status with its detail, or with 'Processing...' when it has none, and
\* keeps the poll timer; a response with state SUCCESS surfaces the
\* completion status; a response with another non-terminal state (QUEUED)
\* leaves the surfaced status and the poll timer as they are.
C18_EveryObservationSurfaced ==
    [][\A t \in Uploads : \A resp \in StatusResponses :
          resp.readable /\ StatusResponse(t, resp) =>
              /\ resp.state = "PROGRESS" =>
                     /\ processingStatus' =
                            (IF DetailOf(resp) # "" THEN DetailOf(resp) ELSE ProcessingMsg)
                     /\ timers' = timers
              /\ resp.state = "SUCCESS" => processingStatus' = CompleteMsg
              /\ resp.state = "QUEUED" => UNCHANGED <<processingStatus, timers>>]_vars

\* a status query of interval t fails in this step: the request fails or
\* the body is unreadable
QueryFails(t) ==
    \E resp \in StatusResponses : ~resp.readable /\ StatusResponse(t, resp)

\* a status response of interval t that reports a terminal state is
\* delivered in this step
TerminalDelivered(t) ==
    \E resp \in StatusResponses :
        resp.readable /\ resp.state \in {"SUCCESS", "FAILURE"} /\ StatusResponse(t, resp)

\* C19: a status query that fails cancels no poll timer and surfaces
\* nothing (neither status nor error changes), so later ticks keep
\* querying; and a response that reports a terminal state, when it is
\* delivered, stops the polling of its interval.  A failed query changes
\* nothing but the number of queries in flight, so every state of the poller
\* is also a state reached after a failed query.
C19_FailedQueryTolerated ==
    [][\A t \in Uploads :
          /\ QueryFails(t) => UNCHANGED <<timers, processingStatus, error, taskId>>
          /\ TerminalDelivered(t) => t \notin timers']_vars

\* the part of C19 about the failed query itself
C19_FailedQueryChangesNothing ==
    [][\A t \in Uploads :
          QueryFails(t) => UNCHANGED <<timers, processingStatus, error, taskId>>]_vars

\* C20: provided every request gets a response or fails, every upload that
\* was started ends, with the uploading flag reset to false.
C20_UploadEventuallyEnds ==
    \A r \in Uploads : Live(runs[r]) ~> (runs[r].pc = "done" /\ ~uploading)

\* two uploads have ended, the first with a successful commit and the second
\* with a part failure, and the flag is reset
C20_Witness ==
    /\ ~uploading
    /\ taskId = 1
    /\ runs[2].pc = "done"
    /\ \E k \in PartNumbers : error \in NamesPart(k)

\* a status response of interval t is delivered in this step
Delivered(t) == \E resp \in StatusResponses : StatusResponse(t, resp)

\* C21: when the polling of an interval has stopped (its timer was cleared
\* at a terminal state or at a change of the task identifier), the response
\* of a query of the interval that was still in flight does not change the
\* surfaced status.
C21_LateResponseChangesNothing ==
    [][\A t \in Uploads :
          t \notin timers /\ Delivered(t) => processingStatus' = processingStatus]_vars

\* C22: while the uploading flag is false no part transfer of any upload is
\* outstanding, and the progress value changes only by the selection of a
\* file or while the flag is true.
C22_NoTransferOutlivesUpload ==
    /\ [](~uploading => \A r \in Uploads, k \in PartNumbers : runs[r].parts[k] # Pending)
    /\ [][~uploading /\ ~uploading' /\ progress' # progress =>
             \E f \in Files : HandleFile(f)]_vars

\* C23: an upload of a (non-empty) file that is no longer the selected file
\* (another non-empty file was selected since) sets neither the task
\* identifier nor the processing status when it ends.
C23_ReplacedUploadSetsNoTask ==
    [][\A r \in Uploads :
          Returns(r) /\ runs[r].file.size > 0 /\ file # runs[r].file /\ file.size > 0 =>
              UNCHANGED <<taskId, processingStatus>>]_vars

\* a body lacks a field: the field is absent or empty
Lacks(body) ==
    \E f \in {"source", "level", "message", "timestamp"} :
        body[f] = Undefined \/ body[f] = Str("")

\* `after` is `before` with exactly one entry added at the end
OneAppended(before, after) ==
    /\ Len(after) = Len(before) + 1
    /\ SubSeq(after, 1, Len(before)) = before

\* C24: a POST /logs whose body lacks source, level, message or timestamp is
\* answered 400 and leaves the store as it is; a POST that is accepted (202)
\* adds exactly one entry, its own, at the end; GET /logs leaves the store
\* as it is and returns its entries in their order, which is the order of
\* acceptance; so every step leaves the store or appends one entry to it.
C24_LogStoreAppendOnly ==
    /\ [][\A body \in Bodies, now \in 0..MaxClock :
            PostLogs(body, now) =>
                /\ Lacks(body) => res'.status = 400 /\ logs' = logs
                /\ res'.status = 202 =>
                       /\ OneAppended(logs, logs')
                       /\ logs'[Len(logs')].source = body.source
                       /\ logs'[Len(logs')].message = body.message]_vars
    /\ [][GetLogs => logs' = logs /\ res'.status = 200 /\ res'.logs = logs]_vars
    /\ [][logs' = logs \/ OneAppended(logs, logs')]_vars
    /\ [](\A i, j \in 1..Len(logs) : i < j => logs[i].receivedAt <= logs[j].receivedAt)

\* an incomplete POST was refused after entries of two sources were accepted
\* at different times
C24_Witness ==
    /\ res.status = 400
    /\ Len(logs) >= 2
    /\ logs[1].source # logs[2].source
    /\ logs[1].receivedAt < logs[2].receivedAt

====
